---------------------------- MODULE Spec2Model ----------------------------
(***************************************************************************)
(* Workflow graph analysis of the two pipelines of the repository:         *)
(*   - Dynamo: dynamo_utils.build_indexes and                               *)
(*     dynamo-flow-diagram-generator.analyze_flow;                          *)
(*   - Grasshopper: FlowDiagramGenerator of flow-diagram-generator.py.      *)
(* Node identifiers are the naturals 1, 2, ...: the k-th raw object of the  *)
(* input file has identifier k.  An identifier that no accepted object      *)
(* carries is a foreign identifier (a dangling reference of the input).     *)
(***************************************************************************)
EXTENDS Integers, Sequences, FiniteSets, TLC

(***************************************************************************)
(* Bounds of the model                                                      *)
(***************************************************************************)
\* raw objects (Dynamo node records, Grasshopper Object chunks) of one file
MaxNodes == 3
\* size of one input file: one for every object, one more for an object with a
\* script ConcreteType, one for every node view, connector and chunk reference,
\* one for every identifier of a scanned text fragment
MaxSize == 6
\* identifiers found in one scanned text fragment (Grasshopper)
MaxFragment == 3

(***************************************************************************)
(* Constants of the program                                                 *)
(***************************************************************************)
cap_paths == 50
cap_len == 200
visited_guard == 10000
top_n == 10
max_paths == 3
max_path_len == 10

\* identifiers an input may mention: those of its objects and a foreign one
Ids == 1..(MaxNodes + 1)

(***************************************************************************)
(* Python containers                                                        *)
(***************************************************************************)
Range(s) == {s[i] : i \in DOMAIN s}

Min2(a, b) == IF a < b THEN a ELSE b

\* s[:n]
Take(s, n) == SubSeq(s, 1, Min2(n, Len(s)))

\* s[-1:]
LastSlice(s) == IF s = <<>> THEN <<>> ELSE <<s[Len(s)]>>

\* [f(x) for x in s] flattened: the concatenation of the sequences of ss
RECURSIVE Concat(_)
Concat(ss) == IF ss = <<>> THEN <<>> ELSE Head(ss) \o Concat(Tail(ss))

\* dict.get(k, []) on a map from identifiers to lists: no key is created
Get(m, k) == IF k \in DOMAIN m THEN m[k] ELSE <<>>

\* defaultdict(list)[k]: reading a missing key creates it with an empty list
Touch(m, ks) == m @@ [x \in ks |-> <<>>]

\* defaultdict(list)[k].append(v)
AppendTo(m, k, v) == (k :> Append(Get(m, k), v)) @@ m

EmptyMap == [x \in {} |-> <<>>]

\* the orders in which list(...) may enumerate a set
RECURSIVE Perms(_)
Perms(S) == IF S = {} THEN {<<>>}
            ELSE UNION {{<<x>> \o p : p \in Perms(S \ {x})} : x \in S}

\* the elements of a set of numbers in increasing order
RECURSIVE Ascending(_)
Ascending(S) == IF S = {} THEN <<>>
                ELSE LET m == CHOOSE x \in S : \A y \in S : x <= y
                     IN <<m>> \o Ascending(S \ {m})

\* sorted(s, key=..., reverse=True) and list.sort(key=..., reverse=True), with
\* keys[i] the key of s[i]: stable, elements of equal key keep their order.
\* Rank(keys, i) is the position at which the sort puts s[i].
Rank(keys, i) ==
    1 + Cardinality({j \in DOMAIN keys :
                        keys[j] > keys[i] \/ (keys[j] = keys[i] /\ j < i)})

\* sorted(s) of a list of identifiers
Sorted(s) ==
    LET rank == [i \in DOMAIN s |->
                   1 + Cardinality({j \in DOMAIN s : s[j] < s[i] \/ (s[j] = s[i] /\ j < i)})]
    IN [r \in DOMAIN s |-> s[CHOOSE i \in DOMAIN s : rank[i] = r]]

SortedDesc(s, keys) ==
    LET rank == [i \in DOMAIN keys |-> Rank(keys, i)]
    IN [r \in DOMAIN s |-> s[CHOOSE i \in DOMAIN keys : rank[i] = r]]

(***************************************************************************)
(* State                                                                    *)
(***************************************************************************)
VARIABLES
    pipeline,             \* "dynamo" or "gh": which analyzer runs
    phase,                \* position in the run: "nodes", "links", "scan", "built"
    size,                 \* size of the input consumed so far
    nodes,                \* Dynamo nodes dict, in key order: the raw records of the input
                          \* themselves, [Id, ConcreteType, display_name], display_name
                          \* telling whether the record holds that key
    view_inputs,          \* Dynamo: identifiers the view flags IsSetAsInput
    view_outputs,         \* Dynamo: identifiers the view flags IsSetAsOutput
    adj,                  \* Dynamo: nodeId -> downstream nodeIds
    rev,                  \* Dynamo: nodeId -> upstream nodeIds
    seen,                 \* raw objects (node records, Object chunks) processed so far
    components,           \* Grasshopper components dict: records [guid] in key order
    connections,          \* Grasshopper: source guid -> target guids
    reverse_connections,  \* Grasshopper: target guid -> source guids
    result,               \* what the last query returned
    prev,                 \* what the previous path enumeration returned
    run                   \* the enumeration in progress, one loop iteration at a time

vars == <<pipeline, phase, size, nodes, view_inputs, view_outputs, adj, rev,
          seen, components, connections, reverse_connections, result, prev, run>>

dynVars == <<nodes, view_inputs, view_outputs, adj, rev>>
ghVars == <<components, connections, reverse_connections>>

\* result: op names the query; raised tells that it raised an exception;
\* starts, ends are the start and end nodes it computed; used_starts, used_ends
\* those its enumeration iterated; all_paths the pool before ranking, in
\* discovery order; contrib the number of paths each traversal call gave to
\* the pool, by <<start, end>> (end 0: a call that takes no end node);
\* paths the ranked list it returned; branching, merges the branch and merge
\* points (Dynamo: the list of node ids; Grasshopper: the dict guid -> list);
\* groups the parallel groups
NoResult == [op |-> "none", raised |-> FALSE, starts |-> {}, ends |-> {},
             used_starts |-> {}, used_ends |-> {}, all_paths |-> <<>>,
             contrib |-> [p \in {} |-> 0], paths |-> <<>>,
             branching |-> <<>>, merges |-> <<>>, groups |-> <<>>]
NoPrev == [valid |-> FALSE, paths |-> <<>>]

\* run: pc is the position in the enumeration ("idle" before the call,
\* "loop" in the for loop over traversal calls, "traverse" inside a traversal
\* call, "done" after the return or the raise); todo the calls the for loop
\* has still to make; cur the arguments of the current or last call; ends the
\* end nodes; st the loop state of the current or last traversal; res the
\* result under construction
NoRun == [pc |-> "idle", todo |-> <<>>, cur |-> <<>>, ends |-> {}, st |-> <<>>,
          res |-> NoResult]


(***************************************************************************)
(* Dynamo: dynamo_utils.build_indexes                                       *)
(***************************************************************************)
\* ConcreteType strings, each given by the keywords its lower case contains
ConcreteTypes == {{}, {"python"}}
AllConcreteTypes == {{}, {"python"}, {"codeblock"}, {"dsfunction"}}

\* the keys of the nodes dict, in insertion order
NodeIds(ns) == [i \in DOMAIN ns |-> ns[i].Id]

\* port layout of the input: node k has one input port and one output port
InPort(k) == 2 * k - 1
OutPort(k) == 2 * k
PortIds == 1..(2 * (MaxNodes + 1))
\* a connector of a saved graph starts at an output port and ends at an input
\* port; 0 stands for a missing Start or End
StartPorts == {OutPort(k) : k \in 1..(MaxNodes + 1)} \cup {0}
EndPorts == {InPort(k) : k \in 1..(MaxNodes + 1)} \cup {0}

\* port_to_node: portId -> nodeId, over the ports of the accepted nodes
PortToNode(ns) ==
    [p \in UNION {{InPort(ns[i].Id), OutPort(ns[i].Id)} : i \in DOMAIN ns} |->
        CHOOSE k \in Range(NodeIds(ns)) : p \in {InPort(k), OutPort(k)}]

\* PortNode with a fault: a port that no node owns resolves to the first node
PortNodeDefault(ns, p) ==
    IF p \in DOMAIN PortToNode(ns) THEN PortToNode(ns)[p]
    ELSE IF ns # <<>> THEN ns[1].Id ELSE 0

\* port_to_node.get(p): 0 stands for None
PortNode(ns, p) ==
    LET port_to_node == PortToNode(ns)
    IN IF p \in DOMAIN port_to_node THEN port_to_node[p] ELSE 0

RecordSize(ctype) == IF ctype = {} THEN 1 ELSE 2

\* for n in data["Nodes"]: a record without Id is skipped; the record at
\* position k of the list carries identifier k
DynAddNode(hasId, ctype) ==
    /\ pipeline = "dynamo"
    /\ phase = "nodes"
    /\ seen < MaxNodes
    /\ size + RecordSize(ctype) <= MaxSize
    /\ seen' = seen + 1
    /\ size' = size + RecordSize(ctype)
    /\ nodes' = IF hasId
                THEN Append(nodes, [Id |-> seen + 1, ConcreteType |-> ctype,
                                    display_name |-> FALSE])
                ELSE nodes
    /\ UNCHANGED <<run, pipeline, phase, view_inputs, view_outputs, adj, rev,
                   ghVars, result, prev>>

\* the loop "for nid, n in nodes.items(): ... n["display_name"] = str(disp)",
\* which the node records go through once all of them have been read
attach_display_name(ns) == [i \in DOMAIN ns |-> [ns[i] EXCEPT !.display_name = TRUE]]

\* view_io_flags: one pass of the loop over NodeViews; nid = 0 is a missing Id
ViewFlagsStep(ins, outs, nid, isIn, isOut) ==
    IF nid = 0 THEN <<ins, outs>>
    ELSE <<IF isIn THEN ins \cup {nid} ELSE ins,
           IF isOut THEN outs \cup {nid} ELSE outs>>

DynAddNodeView(nid, isIn, isOut) ==
    /\ pipeline = "dynamo"
    /\ phase \in {"nodes", "links"}
    /\ size < MaxSize
    /\ phase' = "links"
    /\ size' = size + 1
    /\ view_inputs' = ViewFlagsStep(view_inputs, view_outputs, nid, isIn, isOut)[1]
    /\ view_outputs' = ViewFlagsStep(view_inputs, view_outputs, nid, isIn, isOut)[2]
    /\ nodes' = attach_display_name(nodes)
    /\ UNCHANGED <<run, pipeline, seen, adj, rev, ghVars, result, prev>>

\* ConnectorStep with a fault: the test "s_node == e_node" is missing
ConnectorStepKeepLoops(ns, a, r, s, e) ==
    LET s_node == PortNode(ns, s)
        e_node == PortNode(ns, e)
    IN IF s = 0 \/ e = 0 THEN <<a, r>>
       ELSE IF s_node = 0 \/ e_node = 0 THEN <<a, r>>
       ELSE <<AppendTo(a, s_node, e_node), AppendTo(r, e_node, s_node)>>

\* one pass of the loop over Connectors: s, e are port ids, 0 a missing one
ConnectorStep(ns, a, r, s, e) ==
    LET s_node == PortNode(ns, s)
        e_node == PortNode(ns, e)
    IN IF s = 0 \/ e = 0 THEN <<a, r>>
       ELSE IF s_node = 0 \/ e_node = 0 \/ s_node = e_node THEN <<a, r>>
       ELSE <<AppendTo(a, s_node, e_node), AppendTo(r, e_node, s_node)>>

DynAddConnector(s, e) ==
    /\ pipeline = "dynamo"
    /\ phase \in {"nodes", "links"}
    /\ size < MaxSize
    /\ phase' = "links"
    /\ size' = size + 1
    /\ LET step == ConnectorStep(nodes, adj, rev, s, e)
       IN /\ adj' = step[1]
          /\ rev' = step[2]
    /\ nodes' = attach_display_name(nodes)
    /\ UNCHANGED <<run, pipeline, seen, view_inputs, view_outputs, ghVars, result, prev>>

\* the whole loop over Connectors of build_indexes, from empty maps: a
\* connector is kept when ConnectorStep appends for it, and adj[n] (rev[n])
\* lists the targets (sources) of the kept connectors from (to) n, in order
build_adjacency(ns, connectors) ==
    LET links == [i \in DOMAIN connectors |->
                    <<PortNode(ns, connectors[i][1]), PortNode(ns, connectors[i][2])>>]
        kept == SelectSeq(links, LAMBDA l : l[1] # 0 /\ l[2] # 0 /\ l[1] # l[2])
        from(n) == SelectSeq(kept, LAMBDA l : l[1] = n)
        to(n) == SelectSeq(kept, LAMBDA l : l[2] = n)
    IN <<[n \in {kept[i][1] : i \in DOMAIN kept} |->
            [i \in DOMAIN from(n) |-> from(n)[i][2]]],
         [n \in {kept[i][2] : i \in DOMAIN kept} |->
            [i \in DOMAIN to(n) |-> to(n)[i][1]]]>>

indegree_zero(ns, r) ==
    SelectSeq(NodeIds(ns), LAMBDA nid : Len(Get(r, nid)) = 0)

outdegree_zero(ns, a) ==
    SelectSeq(NodeIds(ns), LAMBDA nid : Len(Get(a, nid)) = 0)


(***************************************************************************)
(* Dynamo: dynamo-flow-diagram-generator.py                                 *)
(***************************************************************************)
\* the set that list(...) then enumerates in an order of its own
pick_starts(ns, r, vin) == Range(indegree_zero(ns, r)) \cup vin

pick_ends(ns, a, vout) == Range(outdegree_zero(ns, a)) \cup vout

\* _simple_paths: the loop state before the first iteration
SpInit(start) ==
    [stack |-> <<[node |-> start, path |-> <<start>>]>>, results |-> <<>>, steps |-> 0]

\* SpGuard with a fault: the path cap is tested with <= instead of <
SpGuardOffByOne(st) ==
    /\ st.stack # <<>>
    /\ Len(st.results) <= cap_paths
    /\ st.steps < visited_guard

\* SpGuard with a fault: the step budget is not tested
SpGuardNoBudget(st) ==
    /\ st.stack # <<>>
    /\ Len(st.results) < cap_paths

\* _simple_paths: the while condition
SpGuard(st) ==
    /\ st.stack # <<>>
    /\ Len(st.results) < cap_paths
    /\ st.steps < visited_guard

\* SpPushes with a fault: the for loop is left at the first neighbour that is
\* on the path already (break instead of continue)
SpPushesBreak(a, node, path) ==
    LET all == Get(a, node)
        stop == IF \E i \in DOMAIN all : all[i] \in Range(path)
                THEN (CHOOSE i \in DOMAIN all :
                         all[i] \in Range(path) /\ \A j \in 1..(i - 1) : all[j] \notin Range(path)) - 1
                ELSE Len(all)
    IN [i \in 1..stop |-> [node |-> all[i], path |-> Append(path, all[i])]]

\* _simple_paths: the entries the for loop pushes, in adjacency order
SpPushes(a, node, path) ==
    LET nb == SelectSeq(Get(a, node), LAMBDA nxt : nxt \notin Range(path))
    IN [i \in 1..Len(nb) |-> [node |-> nb[i], path |-> Append(path, nb[i])]]

\* SpBody with a fault: the entry pushed first is taken (stack.pop(0))
SpBodyFifo(a, end, st) ==
    LET top == Head(st.stack)
        rest == Tail(st.stack)
    IN IF top.node = end
       THEN [stack |-> rest, results |-> Append(st.results, top.path),
             steps |-> st.steps + 1]
       ELSE IF Len(top.path) >= cap_len
       THEN [stack |-> rest, results |-> st.results, steps |-> st.steps + 1]
       ELSE [stack |-> rest \o SpPushes(a, top.node, top.path),
             results |-> st.results, steps |-> st.steps + 1]

\* _simple_paths: one iteration of the while loop
SpBody(a, end, st) ==
    LET top == st.stack[Len(st.stack)]
        rest == SubSeq(st.stack, 1, Len(st.stack) - 1)
    IN IF top.node = end
       THEN [stack |-> rest, results |-> Append(st.results, top.path),
             steps |-> st.steps + 1]
       ELSE IF Len(top.path) >= cap_len
       THEN [stack |-> rest, results |-> st.results, steps |-> st.steps + 1]
       ELSE [stack |-> rest \o SpPushes(a, top.node, top.path),
             results |-> st.results, steps |-> st.steps + 1]

\* The loop runs while its condition holds, which is at most visited_guard
\* iterations; SpRun(a, end, st, n) runs up to n of them from st, splitting n
\* in halves.
RECURSIVE SpRun(_, _, _, _)
SpRun(a, end, st, n) ==
    IF ~SpGuard(st) THEN st
    ELSE IF n <= 1 THEN SpBody(a, end, st)
    ELSE LET mid == SpRun(a, end, st, n \div 2)
         IN SpRun(a, end, mid, n - (n \div 2))

simple_paths(a, start, end) == SpRun(a, end, SpInit(start), visited_guard).results

\* nodes.get(nid, {}).get("ConcreteType") or ""
NodeType(ns, nid) ==
    IF \E i \in DOMAIN ns : ns[i].Id = nid
    THEN ns[CHOOSE i \in DOMAIN ns : ns[i].Id = nid].ConcreteType
    ELSE {}

HighSignal(ctype) == "python" \in ctype \/ "codeblock" \in ctype \/ "dsfunction" \in ctype

RECURSIVE score_from(_, _, _)
score_from(path, ns, i) ==
    IF i > Len(path) THEN 0
    ELSE (IF HighSignal(NodeType(ns, path[i])) THEN 2 ELSE 1) + score_from(path, ns, i + 1)

score_path(path, ns) == score_from(path, ns, 1)

\* FlowPairs with a fault: the test "if s == e: continue" is missing
FlowPairsNoSkip(ss, es) ==
    Concat([i \in 1..Len(ss) |-> [j \in 1..Len(es) |-> <<ss[i], es[j]>>]])

\* the (s, e) pairs the two nested for loops of analyze_flow reach, in order
FlowPairs(ss, es) ==
    Concat([i \in 1..Len(ss) |->
              SelectSeq([j \in 1..Len(es) |-> <<ss[i], es[j]>>],
                        LAMBDA p : p[1] # p[2])])

\* rank_paths with a fault: the list is cut to 10 before it is sorted
rank_paths_cut_first(all_paths, ns) ==
    LET cut == Take(all_paths, top_n)
    IN SortedDesc(cut, [i \in 1..Len(cut) |-> score_path(cut[i], ns)])

\* sorted(all_paths, key=_score_path, reverse=True)[:10]
rank_paths(all_paths, ns) ==
    Take(SortedDesc(all_paths, [i \in 1..Len(all_paths) |-> score_path(all_paths[i], ns)]),
         top_n)

\* [nid for nid in nodes if len(adj.get(nid, [])) > 1]
dyn_branching(ns, a) == SelectSeq(NodeIds(ns), LAMBDA nid : Len(Get(a, nid)) > 1)

\* [nid for nid in nodes if len(rev.get(nid, [])) > 1]
dyn_merges(ns, r) == SelectSeq(NodeIds(ns), LAMBDA nid : Len(Get(r, nid)) > 1)

\* starts or list(nodes.keys())[:1]
flow_starts(ns, starts) == IF starts # <<>> THEN starts ELSE Take(NodeIds(ns), 1)

\* ends or list(nodes.keys())[-1:]
flow_ends(ns, ends) == IF ends # <<>> THEN ends ELSE LastSlice(NodeIds(ns))

\* analyze_flow, with starts and ends the lists _pick_starts and _pick_ends returned
analyze_flow(ns, a, r, starts, ends) ==
    LET ss == flow_starts(ns, starts)
        es == flow_ends(ns, ends)
        pairs == FlowPairs(ss, es)
        pool == [k \in 1..Len(pairs) |-> simple_paths(a, pairs[k][1], pairs[k][2])]
        all_paths == Concat(pool)
    IN [op |-> "analyze_flow", raised |-> FALSE,
        starts |-> Range(starts), ends |-> Range(ends),
        used_starts |-> Range(ss), used_ends |-> Range(es),
        all_paths |-> all_paths,
        contrib |-> [p \in Range(pairs) |->
                       Len(pool[CHOOSE k \in 1..Len(pairs) : pairs[k] = p])],
        paths |-> rank_paths(all_paths, ns),
        branching |-> dyn_branching(ns, a), merges |-> dyn_merges(ns, r),
        groups |-> <<>>]

\* The orders in which list(...) may enumerate the set S.  An element from
\* (to) which no path of the pool leads contributes nothing to the pool
\* wherever it stands in the list, so such elements are listed last, in
\* increasing order; the elements of P, the others, are listed in every order.
SetOrders(S, P) == {p \o Ascending(S \ P) : p \in Perms(S \cap P)}

\* the nodes that the adjacency lists lead to from the nodes of R, R included;
\* _simple_paths finds no path to a node that is not among them
RECURSIVE Reachable(_, _)
Reachable(a, R) ==
    LET N == R \cup UNION {Range(Get(a, n)) : n \in R}
    IN IF N = R THEN R ELSE Reachable(a, N)

\* one invocation of analyze_flow on the file: build_indexes has consumed the
\* whole input, list(...) enumerates the start and end sets in some order
DynAnalyzeFlow ==
    /\ pipeline = "dynamo"
    /\ phase' = "built"
    /\ LET S == pick_starts(nodes, rev, view_inputs)
           E == pick_ends(nodes, adj, view_outputs)
           PS == {s \in S : \E e \in E : s # e /\ e \in Reachable(adj, {s})}
           PE == {e \in E : \E s \in S : s # e /\ e \in Reachable(adj, {s})}
       IN \E so \in SetOrders(S, PS), eo \in SetOrders(E, PE) :
             result' = analyze_flow(nodes, adj, rev, so, eo)
    /\ prev' = [valid |-> result.op = "analyze_flow", paths |-> result.paths]
    /\ nodes' = attach_display_name(nodes)
    /\ UNCHANGED <<run, pipeline, size, seen, view_inputs, view_outputs, adj, rev, ghVars>>

(***************************************************************************)
(* Grasshopper: FlowDiagramGenerator, graph construction                    *)
(***************************************************************************)
\* the keys of the components dict, in insertion order
Guids(comps) == [i \in 1..Len(comps) |-> comps[i].guid]

should_include_component(component_type_name, source_count) ==
    IF component_type_name # "Panel" THEN TRUE
    ELSE IF source_count = 0 THEN TRUE
    ELSE FALSE

\* _process_container_chunk on the next Object chunk, whose InstanceGuid is
\* its position in the file
GhAddObject(component_type_name, source_count) ==
    /\ pipeline = "gh"
    /\ phase = "nodes"
    /\ seen < MaxNodes
    /\ size < MaxSize
    /\ seen' = seen + 1
    /\ size' = size + 1
    /\ components' =
          IF should_include_component(component_type_name, source_count)
          THEN Append(components, [guid |-> seen + 1])
          ELSE components
    /\ UNCHANGED <<run, pipeline, phase, dynVars, connections,
                   reverse_connections, result, prev>>

\* the fallback of _extract_components: when the Object chunks gave no
\* component, every element that carries InstanceGuid as an XML attribute
\* becomes a component, in document order; attributed is the set of raw
\* objects with such an element.  Neither the type name nor SourceCount is read.
extract_components_fallback(comps, attributed) ==
    IF comps # <<>> THEN comps
    ELSE [i \in 1..Cardinality(attributed) |-> [guid |-> Ascending(attributed)[i]]]

\* the end of _extract_components on a file in which some element carries
\* InstanceGuid as an attribute (on a file without such an element the
\* fallback finds nothing, and the pass ends without a step of its own)
GhExtractComponentsFallback(attributed) ==
    /\ pipeline = "gh"
    /\ phase = "nodes"
    /\ phase' = "links"
    /\ components' = extract_components_fallback(components, attributed)
    /\ UNCHANGED <<run, pipeline, size, seen, dynVars, connections,
                   reverse_connections, result, prev>>

\* _add_connection_by_context: hasIn tells that the context holds one of
\* input/source/from, hasOut one of output/target/to/recipient
add_connection_by_context(c, rc, component_guid, referenced_guid, hasIn, hasOut) ==
    IF hasIn
    THEN <<AppendTo(c, referenced_guid, component_guid),
           AppendTo(rc, component_guid, referenced_guid)>>
    ELSE IF hasOut
    THEN <<AppendTo(c, component_guid, referenced_guid),
           AppendTo(rc, referenced_guid, component_guid)>>
    ELSE <<AppendTo(c, referenced_guid, component_guid),
           AppendTo(rc, component_guid, referenced_guid)>>

\* guid_reference with a fault: the test "ref_guid in self.components" is missing
guid_reference_unchecked(comps, c, rc, component_guid, ref_guid, hasIn, hasOut) ==
    IF component_guid \notin Range(Guids(comps)) THEN <<c, rc>>
    ELSE IF ref_guid # component_guid
    THEN add_connection_by_context(c, rc, component_guid, ref_guid, hasIn, hasOut)
    ELSE <<c, rc>>

\* _find_guid_references_in_element, for one identifier found in the chunk
\* of component_guid (a chunk whose component was not accepted is not read)
guid_reference(comps, c, rc, component_guid, ref_guid, hasIn, hasOut) ==
    IF component_guid \notin Range(Guids(comps)) THEN <<c, rc>>
    ELSE IF ref_guid \in Range(Guids(comps)) /\ ref_guid # component_guid
    THEN add_connection_by_context(c, rc, component_guid, ref_guid, hasIn, hasOut)
    ELSE <<c, rc>>

GhAddReference(component_guid, ref_guid, hasIn, hasOut) ==
    /\ pipeline = "gh"
    /\ phase \in {"nodes", "links"}
    /\ size < MaxSize
    /\ phase' = "links"
    /\ size' = size + 1
    /\ connections' = guid_reference(components, connections, reverse_connections,
                                     component_guid, ref_guid, hasIn, hasOut)[1]
    /\ reverse_connections' = guid_reference(components, connections, reverse_connections,
                                             component_guid, ref_guid, hasIn, hasOut)[2]
    /\ UNCHANGED <<run, pipeline, seen, components, dynVars, result, prev>>

\* add_connection with a fault: the reverse entry is appended without the
\* membership test
add_connection_half(c, rc, source_guid, target_guid) ==
    <<IF target_guid \notin Range(Get(c, source_guid))
      THEN AppendTo(c, source_guid, target_guid)
      ELSE Touch(c, {source_guid}),
      AppendTo(rc, target_guid, source_guid)>>

\* _add_connection: reading connections[source_guid] creates the key
add_connection(c, rc, source_guid, target_guid) ==
    <<IF target_guid \notin Range(Get(c, source_guid))
      THEN AppendTo(c, source_guid, target_guid)
      ELSE Touch(c, {source_guid}),
      IF source_guid \notin Range(Get(rc, target_guid))
      THEN AppendTo(rc, target_guid, source_guid)
      ELSE Touch(rc, {target_guid})>>

\* the (source, target) pairs the two nested loops of _find_connection_patterns
\* reach, in order
FragmentPairs(referenced_guids) ==
    Concat([i \in 1..(Len(referenced_guids) - 1) |->
              [j \in 1..(Len(referenced_guids) - i) |->
                 <<referenced_guids[i], referenced_guids[i + j]>>]])

RECURSIVE connect_pairs(_, _, _, _, _)
connect_pairs(comps, c, rc, pairs, k) ==
    IF k > Len(pairs) THEN <<c, rc>>
    ELSE LET source_guid == pairs[k][1]
             target_guid == pairs[k][2]
             next == IF /\ source_guid \in Range(Guids(comps))
                        /\ target_guid \in Range(Guids(comps))
                        /\ source_guid # target_guid
                     THEN add_connection(c, rc, source_guid, target_guid)
                     ELSE <<c, rc>>
         IN connect_pairs(comps, next[1], next[2], pairs, k + 1)

\* _find_connection_patterns on the text of one element
find_connection_patterns(comps, c, rc, referenced_guids) ==
    IF Len(referenced_guids) >= 2
    THEN connect_pairs(comps, c, rc, FragmentPairs(referenced_guids), 1)
    ELSE <<c, rc>>

Fragments == UNION {[1..n -> Ids] : n \in 1..MaxFragment}

GhScanFragment(referenced_guids) ==
    /\ pipeline = "gh"
    /\ phase \in {"nodes", "links", "scan"}
    /\ size + Len(referenced_guids) <= MaxSize
    /\ phase' = "scan"
    /\ size' = size + Len(referenced_guids)
    /\ connections' = find_connection_patterns(components, connections,
                                               reverse_connections, referenced_guids)[1]
    /\ reverse_connections' = find_connection_patterns(components, connections,
                                                       reverse_connections, referenced_guids)[2]
    /\ UNCHANGED <<run, pipeline, seen, components, dynVars, result, prev>>


(***************************************************************************)
(* Grasshopper: FlowDiagramGenerator, queries                               *)
(***************************************************************************)
\* min(...) of a non-empty collection of numbers
MinOf(S) == CHOOSE m \in S : \A x \in S : m <= x

\* degree_candidates with a fault: the fallback keeps every component instead of
\* those of minimal degree
degree_candidates_all(comps, m) ==
    LET guids == Guids(comps)
        zero == SelectSeq(guids, LAMBDA guid : Get(m, guid) = <<>>)
    IN IF zero # <<>> THEN [raised |-> FALSE, value |-> zero]
       ELSE IF guids = <<>> THEN [raised |-> TRUE, value |-> <<>>]
       ELSE [raised |-> FALSE, value |-> guids]

\* the candidates of _find_start_nodes / _find_end_nodes over the map m
\* (reverse_connections / connections): [raised, value]; min() of an empty
\* sequence raises ValueError
degree_candidates(comps, m) ==
    LET guids == Guids(comps)
        zero == SelectSeq(guids, LAMBDA guid : Get(m, guid) = <<>>)
    IN IF zero # <<>> THEN [raised |-> FALSE, value |-> zero]
       ELSE IF guids = <<>> THEN [raised |-> TRUE, value |-> <<>>]
       ELSE LET least == MinOf({Len(Get(m, guids[i])) : i \in 1..Len(guids)})
            IN [raised |-> FALSE,
                value |-> SelectSeq(guids, LAMBDA guid : Len(Get(m, guid)) = least)]

find_start_nodes(comps, rc) == degree_candidates(comps, rc)

find_end_nodes(comps, c) == degree_candidates(comps, c)

\* _trace_paths_from_start: the loop state before the first iteration; the
\* state carries the connections map, whose keys the reads create
TrInit(c, start_guid) ==
    [queue |-> <<[guid |-> start_guid, path |-> <<start_guid>>]>>, paths |-> <<>>,
     visited_paths |-> {}, connections |-> c]

\* TrGuard with a fault: the path count is tested with <= instead of <
TrGuardOffByOne(st) == st.queue # <<>> /\ Len(st.paths) <= max_paths

\* _trace_paths_from_start: the while condition
TrGuard(st) == st.queue # <<>> /\ Len(st.paths) < max_paths

\* TrPushes with a fault: the test "next_guid not in path" is missing
TrPushesNoCycleTest(c, guid, path) ==
    LET nb == SelectSeq(Get(c, guid), LAMBDA next_guid : Len(path) + 1 <= max_path_len)
    IN [i \in 1..Len(nb) |-> [guid |-> nb[i], path |-> Append(path, nb[i])]]

\* _trace_paths_from_start: the entries the for loop appends to the queue
TrPushes(c, guid, path) ==
    LET nb == SelectSeq(Get(c, guid),
                        LAMBDA next_guid : /\ next_guid \notin Range(path)
                                           /\ Len(path) + 1 <= max_path_len)
    IN [i \in 1..Len(nb) |-> [guid |-> nb[i], path |-> Append(path, nb[i])]]

\* _trace_paths_from_start: one iteration of the while loop
TrBody(end_nodes, st) ==
    LET cur == Head(st.queue)
        rest == Tail(st.queue)
        c == Touch(st.connections, {cur.guid})
    IN IF cur.path \in st.visited_paths
       THEN [st EXCEPT !.queue = rest]
       ELSE IF cur.guid \in end_nodes
       THEN [queue |-> rest,
             paths |-> IF Len(cur.path) > 1 THEN Append(st.paths, cur.path) ELSE st.paths,
             visited_paths |-> st.visited_paths \cup {cur.path},
             connections |-> st.connections]
       ELSE IF c[cur.guid] = <<>>
       THEN [queue |-> rest,
             paths |-> IF Len(cur.path) > 1 THEN Append(st.paths, cur.path) ELSE st.paths,
             visited_paths |-> st.visited_paths \cup {cur.path},
             connections |-> c]
       ELSE [queue |-> rest \o TrPushes(c, cur.guid, cur.path),
             paths |-> st.paths,
             visited_paths |-> st.visited_paths \cup {cur.path},
             connections |-> c]

RECURSIVE TrRun(_, _)
TrRun(end_nodes, st) == IF TrGuard(st) THEN TrRun(end_nodes, TrBody(end_nodes, st)) ELSE st

\* [paths, connections]: what the call returns and the map it leaves
trace_paths_from_start(c, start_guid, end_nodes) ==
    LET st == TrRun(end_nodes, TrInit(c, start_guid))
    IN [paths |-> st.paths, connections |-> st.connections]

\* the for loop of _identify_main_workflow_paths from its k-th start node on:
\* [pool, connections], pool[k] the paths traced from the k-th start node
RECURSIVE trace_all(_, _, _, _, _)
trace_all(c, start_nodes, end_nodes, k, pool) ==
    IF k > Len(start_nodes) THEN [pool |-> pool, connections |-> c]
    ELSE LET t == trace_paths_from_start(c, start_nodes[k], end_nodes)
         IN trace_all(t.connections, start_nodes, end_nodes, k + 1, Append(pool, t.paths))

\* rank_by_length with a fault: the list is sorted by increasing length and
\* then reversed (all_paths.sort(key=len); all_paths.reverse())
rank_by_length_reversed(all_paths) ==
    LET backwards == [i \in 1..Len(all_paths) |-> all_paths[Len(all_paths) + 1 - i]]
    IN Take(SortedDesc(backwards, [i \in 1..Len(backwards) |-> Len(backwards[i])]), top_n)

\* all_paths.sort(key=len, reverse=True); all_paths[:10]
rank_by_length(all_paths) ==
    Take(SortedDesc(all_paths, [i \in 1..Len(all_paths) |-> Len(all_paths[i])]), top_n)

\* _identify_main_workflow_paths: [result, connections, reverse_connections]
identify_main_workflow_paths(comps, c, rc) ==
    LET sn == find_start_nodes(comps, rc)
        en == find_end_nodes(comps, c)
        guids == Range(Guids(comps))
        raisedResult == [NoResult EXCEPT !.op = "main_paths", !.raised = TRUE]
    IN IF sn.raised
       THEN [result |-> raisedResult, connections |-> c,
             reverse_connections |-> Touch(rc, guids)]
       ELSE IF en.raised
       THEN [result |-> raisedResult, connections |-> Touch(c, guids),
             reverse_connections |-> Touch(rc, guids)]
       ELSE LET t == trace_all(Touch(c, guids), sn.value, Range(en.value), 1, <<>>)
                all_paths == Concat(t.pool)
            IN [result |-> [op |-> "main_paths", raised |-> FALSE,
                            starts |-> Range(sn.value), ends |-> Range(en.value),
                            used_starts |-> Range(sn.value), used_ends |-> Range(en.value),
                            all_paths |-> all_paths,
                            contrib |-> [p \in {<<sn.value[k], 0>> : k \in 1..Len(sn.value)} |->
                                           Len(t.pool[CHOOSE k \in 1..Len(sn.value) :
                                                        sn.value[k] = p[1]])],
                            paths |-> rank_by_length(all_paths),
                            branching |-> <<>>, merges |-> <<>>, groups |-> <<>>],
                connections |-> t.connections,
                reverse_connections |-> Touch(rc, guids)]

\* _identify_branching_points, _identify_merge_points over the map m
\* (connections / reverse_connections): the entries of more than one element
identify_points(m) == [guid \in {g \in DOMAIN m : Len(m[g]) > 1} |-> m[guid]]

identify_branching_points(c) == identify_points(c)

identify_merge_points(rc) == identify_points(rc)

\* _identify_parallel_processing with a fault: a group of one is reported
identify_parallel_processing_single(comps, rc) ==
    LET guids == Guids(comps)
        inputs(guid) == Sorted(Get(rc, guid))
        first == SelectSeq([i \in DOMAIN guids |-> i],
                           LAMBDA i : /\ inputs(guids[i]) # <<>>
                                      /\ \A j \in 1..(i - 1) :
                                            inputs(guids[j]) # inputs(guids[i]))
        input_groups == [k \in DOMAIN first |->
                           SelectSeq(guids, LAMBDA g : inputs(g) = inputs(guids[first[k]]))]
    IN SelectSeq(input_groups, LAMBDA components_of : Len(components_of) >= 1)

\* _identify_parallel_processing: input_groups lists the groups in the order
\* in which the loop over the components creates their keys
identify_parallel_processing(comps, rc) ==
    LET guids == Guids(comps)
        inputs(guid) == Sorted(Get(rc, guid))
        first == SelectSeq([i \in DOMAIN guids |-> i],
                           LAMBDA i : /\ inputs(guids[i]) # <<>>
                                      /\ \A j \in 1..(i - 1) :
                                            inputs(guids[j]) # inputs(guids[i]))
        input_groups == [k \in DOMAIN first |->
                           SelectSeq(guids, LAMBDA g : inputs(g) = inputs(guids[first[k]]))]
    IN SelectSeq(input_groups, LAMBDA components_of : Len(components_of) > 1)

\* the queries are made on the object analyze_xml has filled
GhFindStartNodes ==
    /\ pipeline = "gh"
    /\ phase' = "built"
    /\ LET r == find_start_nodes(components, reverse_connections)
       IN result' = [NoResult EXCEPT !.op = "find_start_nodes", !.raised = r.raised,
                                     !.starts = Range(r.value)]
    /\ reverse_connections' = Touch(reverse_connections, Range(Guids(components)))
    /\ UNCHANGED <<run, pipeline, size, seen, dynVars, components, connections, prev>>

GhFindEndNodes ==
    /\ pipeline = "gh"
    /\ phase' = "built"
    /\ LET r == find_end_nodes(components, connections)
       IN result' = [NoResult EXCEPT !.op = "find_end_nodes", !.raised = r.raised,
                                     !.ends = Range(r.value)]
    /\ connections' = Touch(connections, Range(Guids(components)))
    /\ UNCHANGED <<run, pipeline, size, seen, dynVars, components, reverse_connections, prev>>

GhIdentifyMainWorkflowPaths ==
    /\ pipeline = "gh"
    /\ phase' = "built"
    /\ LET r == identify_main_workflow_paths(components, connections, reverse_connections)
       IN /\ result' = r.result
          /\ connections' = r.connections
          /\ reverse_connections' = r.reverse_connections
    /\ prev' = [valid |-> result.op = "main_paths", paths |-> result.paths]
    /\ UNCHANGED <<run, pipeline, size, seen, dynVars, components>>

GhIdentifyBranchingPoints ==
    /\ pipeline = "gh"
    /\ phase' = "built"
    /\ result' = [NoResult EXCEPT !.op = "branching_points",
                                  !.branching = identify_branching_points(connections)]
    /\ UNCHANGED <<run, pipeline, size, seen, dynVars, ghVars, prev>>

GhIdentifyMergePoints ==
    /\ pipeline = "gh"
    /\ phase' = "built"
    /\ result' = [NoResult EXCEPT !.op = "merge_points",
                                  !.merges = identify_merge_points(reverse_connections)]
    /\ UNCHANGED <<run, pipeline, size, seen, dynVars, ghVars, prev>>

\* reading reverse_connections[guid] creates the key of every component
GhIdentifyParallelProcessing ==
    /\ pipeline = "gh"
    /\ phase' = "built"
    /\ result' = [NoResult EXCEPT !.op = "parallel_processing",
                      !.groups = identify_parallel_processing(components, reverse_connections)]
    /\ reverse_connections' = Touch(reverse_connections, Range(Guids(components)))
    /\ UNCHANGED <<run, pipeline, size, seen, dynVars, components, connections, prev>>

(***************************************************************************)
(* The analysis of one input file                                           *)
(***************************************************************************)
Init ==
    /\ pipeline \in {"dynamo", "gh"}
    /\ phase = "nodes"
    /\ size = 0
    /\ seen = 0
    /\ nodes = <<>>
    /\ view_inputs = {}
    /\ view_outputs = {}
    /\ adj = EmptyMap
    /\ rev = EmptyMap
    /\ components = <<>>
    /\ connections = EmptyMap
    /\ reverse_connections = EmptyMap
    /\ result = NoResult
    /\ prev = NoPrev
    /\ run = NoRun

Next ==
    \/ \E hasId \in BOOLEAN, ctype \in ConcreteTypes : DynAddNode(hasId, ctype)
    \/ \E nid \in Ids \cup {0}, isIn \in BOOLEAN, isOut \in BOOLEAN :
          DynAddNodeView(nid, isIn, isOut)
    \/ \E s \in StartPorts, e \in EndPorts : DynAddConnector(s, e)
    \/ DynAnalyzeFlow
    \/ \E tn \in {"Panel", "Other"}, sc \in {0, 1} : GhAddObject(tn, sc)
    \/ \E attributed \in (SUBSET (1..seen)) \ {{}} : GhExtractComponentsFallback(attributed)
    \/ \E cg \in Ids, rg \in Ids, hasIn \in BOOLEAN, hasOut \in BOOLEAN :
          GhAddReference(cg, rg, hasIn, hasOut)
    \/ \E f \in Fragments : GhScanFragment(f)
    \/ GhFindStartNodes
    \/ GhFindEndNodes
    \/ GhIdentifyMainWorkflowPaths
    \/ GhIdentifyBranchingPoints
    \/ GhIdentifyMergePoints
    \/ GhIdentifyParallelProcessing

Spec == Init /\ [][Next]_vars

(***************************************************************************)
(* Dynamo files with many connectors between few nodes: node 1 feeds node 2 *)
(* by at most one connector and node 3 by several parallel ones, node 3     *)
(* feeds node 4 by several parallel ones                                    *)
(***************************************************************************)
\* parallel connectors between one pair of ports
MaxMult == 8

Repeat(x, n) == [i \in 1..n |-> x]

FanConnectors(m12, m13, m34) ==
    Repeat(<<OutPort(1), InPort(2)>>, m12) \o Repeat(<<OutPort(1), InPort(3)>>, m13)
       \o Repeat(<<OutPort(3), InPort(4)>>, m34)

InitFan ==
    /\ pipeline = "dynamo"
    /\ phase = "links"
    /\ seen = 4
    /\ \E t2 \in AllConcreteTypes, t3 \in AllConcreteTypes :
          nodes = attach_display_name(
                     <<[Id |-> 1, ConcreteType |-> {}, display_name |-> FALSE],
                       [Id |-> 2, ConcreteType |-> t2, display_name |-> FALSE],
                       [Id |-> 3, ConcreteType |-> t3, display_name |-> FALSE],
                       [Id |-> 4, ConcreteType |-> {}, display_name |-> FALSE]>>)
    /\ view_inputs = {}
    /\ view_outputs = {}
    /\ \E m12 \in 0..1, m13 \in 0..MaxMult, m34 \in 0..MaxMult :
          /\ size = 4 + m12 + m13 + m34
          /\ adj = build_adjacency(nodes, FanConnectors(m12, m13, m34))[1]
          /\ rev = build_adjacency(nodes, FanConnectors(m12, m13, m34))[2]
    /\ components = <<>>
    /\ connections = EmptyMap
    /\ reverse_connections = EmptyMap
    /\ result = NoResult
    /\ prev = NoPrev
    /\ run = NoRun

NextFan == DynAnalyzeFlow

SpecFan == InitFan /\ [][NextFan]_vars


(***************************************************************************)
(* The path enumeration, one loop iteration at a time                       *)
(***************************************************************************)
\* connectors of the small files
RunEdges == 2
\* nodes of the knot of the dense Dynamo file
DenseNodes == 8
\* nodes of the knot, and leaves of the star, of the dense Grasshopper files
KnotNodes == 5

\* Connectors as <<source node, target node>>.  Knot: node 1 feeds node 2,
\* the nodes 2..k+1 feed one another, node k+2 is isolated.  Star: node 1
\* feeds the nodes 2..k+1.
KnotEdges(k) ==
    <<<<1, 2>>>> \o Concat([i \in 1..k |->
                      SelectSeq([j \in 1..k |-> <<i + 1, j + 1>>], LAMBDA e : e[1] # e[2])])
StarEdges(k) == [i \in 1..k |-> <<1, i + 1>>]

\* the input files: n raw objects and a list of connectors between them
RunInputs ==
    {[n |-> n, edges |-> es] :
        n \in 0..MaxNodes, es \in UNION {[1..m -> (1..MaxNodes) \X (1..MaxNodes)] : m \in 0..RunEdges}}

\* Nodes records without ConcreteType, as build_indexes leaves them, and
\* Connectors between their ports
PlainNodes(n) ==
    attach_display_name([i \in 1..n |-> [Id |-> i, ConcreteType |-> {}, display_name |-> FALSE]])
PortConnectors(edges) == [i \in DOMAIN edges |-> <<OutPort(edges[i][1]), InPort(edges[i][2])>>]

\* the Object chunks: the chunk of the target names the source as its input;
\* a reference is kept when guid_reference appends for it (context "input"),
\* and connections[n] (reverse_connections[n]) lists the targets (sources) of
\* the kept references from (to) n, in order
gh_references(comps, edges) ==
    LET guids == Range(Guids(comps))
        kept == SelectSeq(edges, LAMBDA e : e[1] \in guids /\ e[2] \in guids /\ e[1] # e[2])
        from(n) == SelectSeq(kept, LAMBDA e : e[1] = n)
        to(n) == SelectSeq(kept, LAMBDA e : e[2] = n)
    IN <<[n \in {kept[i][1] : i \in DOMAIN kept} |->
            [i \in DOMAIN from(n) |-> from(n)[i][2]]],
         [n \in {kept[i][2] : i \in DOMAIN kept} |->
            [i \in DOMAIN to(n) |-> to(n)[i][1]]]>>

InitRunGraph(n, edges) ==
    /\ seen = n
    /\ size = n + Len(edges)
    /\ view_inputs = {}
    /\ view_outputs = {}
    /\ IF pipeline = "dynamo"
       THEN /\ nodes = PlainNodes(n)
            /\ adj = build_adjacency(nodes, PortConnectors(edges))[1]
            /\ rev = build_adjacency(nodes, PortConnectors(edges))[2]
            /\ components = <<>>
            /\ connections = EmptyMap
            /\ reverse_connections = EmptyMap
       ELSE /\ nodes = <<>>
            /\ adj = EmptyMap
            /\ rev = EmptyMap
            /\ components = [i \in 1..n |-> [guid |-> i]]
            /\ connections = gh_references(components, edges)[1]
            /\ reverse_connections = gh_references(components, edges)[2]

\* the input has been consumed, the enumeration has not been called yet
InitRun ==
    /\ pipeline \in {"dynamo", "gh"}
    /\ phase = "links"
    /\ \/ \E in \in RunInputs :
             /\ \A i \in DOMAIN in.edges : in.edges[i][1] <= in.n /\ in.edges[i][2] <= in.n
             /\ InitRunGraph(in.n, in.edges)
       \/ /\ pipeline = "dynamo"
          /\ InitRunGraph(DenseNodes + 2, KnotEdges(DenseNodes))
       \/ /\ pipeline = "gh"
          /\ \/ InitRunGraph(KnotNodes + 2, KnotEdges(KnotNodes))
             \/ InitRunGraph(KnotNodes + 1, StarEdges(KnotNodes))
    /\ result = NoResult
    /\ prev = NoPrev
    /\ run = NoRun

\* analyze_flow up to its for loops
DynBegin ==
    /\ pipeline = "dynamo"
    /\ run.pc = "idle"
    /\ LET S == pick_starts(nodes, rev, view_inputs)
           E == pick_ends(nodes, adj, view_outputs)
           PS == {s \in S : \E e \in E : s # e /\ e \in Reachable(adj, {s})}
           PE == {e \in E : \E s \in S : s # e /\ e \in Reachable(adj, {s})}
       IN \E so \in SetOrders(S, PS), eo \in SetOrders(E, PE) :
             run' = [pc |-> "loop",
                     todo |-> FlowPairs(flow_starts(nodes, so), flow_ends(nodes, eo)),
                     cur |-> <<>>, ends |-> {},
                     st |-> [stack |-> <<>>, results |-> <<>>, steps |-> 0],
                     res |-> [NoResult EXCEPT !.op = "analyze_flow",
                                !.starts = Range(so), !.ends = Range(eo),
                                !.used_starts = Range(flow_starts(nodes, so)),
                                !.used_ends = Range(flow_ends(nodes, eo))]]
    /\ UNCHANGED <<pipeline, phase, size, seen, dynVars, ghVars, result, prev>>

\* the call _simple_paths(adj, s, e) of the next pair, up to its while loop
DynCall ==
    /\ pipeline = "dynamo"
    /\ run.pc = "loop"
    /\ run.todo # <<>>
    /\ run' = [run EXCEPT !.pc = "traverse", !.cur = Head(run.todo),
                          !.todo = Tail(run.todo), !.st = SpInit(Head(run.todo)[1])]
    /\ UNCHANGED <<pipeline, phase, size, seen, dynVars, ghVars, result, prev>>

\* one iteration of the while loop of _simple_paths
DynStep ==
    /\ pipeline = "dynamo"
    /\ run.pc = "traverse"
    /\ SpGuard(run.st)
    /\ run' = [run EXCEPT !.st = SpBody(adj, run.cur[2], run.st)]
    /\ UNCHANGED <<pipeline, phase, size, seen, dynVars, ghVars, result, prev>>

\* the while condition fails: return results, all_paths.extend(...)
DynReturn ==
    /\ pipeline = "dynamo"
    /\ run.pc = "traverse"
    /\ ~SpGuard(run.st)
    /\ run' = [run EXCEPT !.pc = "loop",
                          !.res.all_paths = @ \o run.st.results,
                          !.res.contrib = [p \in (DOMAIN @) \cup {run.cur} |->
                                             IF p = run.cur THEN Len(run.st.results)
                                             ELSE @[p]]]
    /\ UNCHANGED <<pipeline, phase, size, seen, dynVars, ghVars, result, prev>>

\* the for loops are over: sort, cut, return
DynFinish ==
    /\ pipeline = "dynamo"
    /\ run.pc = "loop"
    /\ run.todo = <<>>
    /\ run' = [run EXCEPT !.pc = "done"]
    /\ phase' = "built"
    /\ result' = [run.res EXCEPT !.paths = rank_paths(run.res.all_paths, nodes),
                                 !.branching = dyn_branching(nodes, adj),
                                 !.merges = dyn_merges(nodes, rev)]
    /\ prev' = [valid |-> result.op = "analyze_flow", paths |-> result.paths]
    /\ UNCHANGED <<pipeline, size, seen, dynVars, ghVars>>

\* _identify_main_workflow_paths up to its for loop: _find_start_nodes and
\* _find_end_nodes, of which either may raise
GhBegin ==
    /\ pipeline = "gh"
    /\ run.pc = "idle"
    /\ LET sn == find_start_nodes(components, reverse_connections)
           en == find_end_nodes(components, connections)
           guids == Range(Guids(components))
       IN /\ reverse_connections' = Touch(reverse_connections, guids)
          /\ connections' = IF sn.raised THEN connections ELSE Touch(connections, guids)
          /\ IF sn.raised \/ en.raised
             THEN /\ run' = [run EXCEPT !.pc = "done"]
                  /\ phase' = "built"
                  /\ result' = [NoResult EXCEPT !.op = "main_paths", !.raised = TRUE]
                  /\ prev' = [valid |-> result.op = "main_paths", paths |-> result.paths]
             ELSE /\ run' = [pc |-> "loop", todo |-> sn.value, cur |-> <<>>,
                             ends |-> Range(en.value),
                             st |-> [queue |-> <<>>, paths |-> <<>>, visited_paths |-> {},
                                     connections |-> Touch(connections, guids)],
                             res |-> [NoResult EXCEPT !.op = "main_paths",
                                        !.starts = Range(sn.value), !.ends = Range(en.value),
                                        !.used_starts = Range(sn.value),
                                        !.used_ends = Range(en.value)]]
                  /\ UNCHANGED <<phase, result, prev>>
    /\ UNCHANGED <<pipeline, size, seen, dynVars, components>>

\* the call _trace_paths_from_start(start_guid, end_nodes) of the next start
\* node, up to its while loop
GhCall ==
    /\ pipeline = "gh"
    /\ run.pc = "loop"
    /\ run.todo # <<>>
    /\ run' = [run EXCEPT !.pc = "traverse", !.cur = <<Head(run.todo), 0>>,
                          !.todo = Tail(run.todo),
                          !.st = TrInit(connections, Head(run.todo))]
    /\ UNCHANGED <<pipeline, phase, size, seen, dynVars, ghVars, result, prev>>

\* one iteration of the while loop of _trace_paths_from_start
GhStep ==
    /\ pipeline = "gh"
    /\ run.pc = "traverse"
    /\ TrGuard(run.st)
    /\ run' = [run EXCEPT !.st = TrBody(run.ends, run.st)]
    /\ connections' = TrBody(run.ends, run.st).connections
    /\ UNCHANGED <<pipeline, phase, size, seen, dynVars, components,
                   reverse_connections, result, prev>>

\* the while condition fails: return paths, all_paths.extend(...)
GhReturn ==
    /\ pipeline = "gh"
    /\ run.pc = "traverse"
    /\ ~TrGuard(run.st)
    /\ run' = [run EXCEPT !.pc = "loop",
                          !.res.all_paths = @ \o run.st.paths,
                          !.res.contrib = [p \in (DOMAIN @) \cup {run.cur} |->
                                             IF p = run.cur THEN Len(run.st.paths)
                                             ELSE @[p]]]
    /\ UNCHANGED <<pipeline, phase, size, seen, dynVars, ghVars, result, prev>>

\* the for loop is over: sort, cut, return
GhFinish ==
    /\ pipeline = "gh"
    /\ run.pc = "loop"
    /\ run.todo = <<>>
    /\ run' = [run EXCEPT !.pc = "done"]
    /\ phase' = "built"
    /\ result' = [run.res EXCEPT !.paths = rank_by_length(run.res.all_paths)]
    /\ prev' = [valid |-> result.op = "main_paths", paths |-> result.paths]
    /\ UNCHANGED <<pipeline, size, seen, dynVars, ghVars>>

NextRun ==
    \/ DynBegin
    \/ DynCall
    \/ DynStep
    \/ DynReturn
    \/ DynFinish
    \/ GhBegin
    \/ GhCall
    \/ GhStep
    \/ GhReturn
    \/ GhFinish

\* the interpreter goes on executing the call until it returns or raises
SpecRun == InitRun /\ [][NextRun]_vars /\ WF_vars(NextRun)



(***************************************************************************)
(* Files of four nodes 1..4 whose connectivity records are drawn, in any    *)
(* order and number, from the edges of the diamond 1->2, 1->3, 2->4, 3->4   *)
(***************************************************************************)
\* connectivity records of a file
SceneEdges == 4

DiamondEdges == {<<1, 2>>, <<1, 3>>, <<2, 4>>, <<3, 4>>}

InitScene ==
    /\ pipeline \in {"dynamo", "gh"}
    /\ phase = "links"
    /\ \E m \in 0..SceneEdges : \E edges \in [1..m -> DiamondEdges] :
          InitRunGraph(Cardinality(UNION {{e[1], e[2]} : e \in DiamondEdges}), edges)
    /\ result = NoResult
    /\ prev = NoPrev
    /\ run = NoRun

NextScene ==
    \/ DynAnalyzeFlow
    \/ GhFindStartNodes
    \/ GhFindEndNodes
    \/ GhIdentifyMainWorkflowPaths
    \/ GhIdentifyBranchingPoints
    \/ GhIdentifyMergePoints
    \/ GhIdentifyParallelProcessing

SpecScene == InitScene /\ [][NextScene]_vars


(***************************************************************************)
(* Dynamo files whose node records have been read: the loop over the        *)
(* connectors of build_indexes, one connector at a time                     *)
(***************************************************************************)
InitLinks ==
    /\ pipeline = "dynamo"
    /\ phase = "links"
    /\ \E n \in 0..MaxNodes : \E withId \in SUBSET (1..n) :
          /\ seen = n
          /\ size = n
          /\ nodes = SelectSeq(PlainNodes(n), LAMBDA r : r.Id \in withId)
    /\ view_inputs = {}
    /\ view_outputs = {}
    /\ adj = EmptyMap
    /\ rev = EmptyMap
    /\ components = <<>>
    /\ connections = EmptyMap
    /\ reverse_connections = EmptyMap
    /\ result = NoResult
    /\ prev = NoPrev
    /\ run = NoRun

NextLinks == \E s \in PortIds \cup {0}, e \in PortIds \cup {0} : DynAddConnector(s, e)

SpecLinks == InitLinks /\ [][NextLinks]_vars


(***************************************************************************)
(* Grasshopper files that reach the caps of the enumeration: a chain        *)
(* 1 -> 2 -> ... -> n, and a fan in which each of the components 1..a feeds *)
(* each of the components a+1..a+b                                          *)
(***************************************************************************)
\* components of the longest chain
ChainNodes == 11
\* feeding and fed components of the widest fan
CapStarts == 4
CapEnds == 4

ChainEdges(n) == [i \in 1..(n - 1) |-> <<i, i + 1>>]

BicliqueEdges(a, b) == Concat([i \in 1..a |-> [j \in 1..b |-> <<i, a + j>>]])

InitCaps ==
    /\ pipeline = "gh"
    /\ phase = "links"
    /\ \/ \E n \in 2..ChainNodes : InitRunGraph(n, ChainEdges(n))
       \/ \E a \in 1..CapStarts, b \in 1..CapEnds : InitRunGraph(a + b, BicliqueEdges(a, b))
    /\ result = NoResult
    /\ prev = NoPrev
    /\ run = NoRun

NextCaps ==
    \/ GhFindStartNodes
    \/ GhFindEndNodes
    \/ GhIdentifyMainWorkflowPaths
    \/ GhIdentifyBranchingPoints
    \/ GhIdentifyMergePoints
    \/ GhIdentifyParallelProcessing

SpecCaps == InitCaps /\ [][NextCaps]_vars


(***************************************************************************)
(* The graph of the running pipeline, as the properties read it             *)
(***************************************************************************)
GraphNodes == IF pipeline = "dynamo" THEN Range(NodeIds(nodes))
              ELSE Range(Guids(components))

\* the forward and reverse adjacency lists of node n
Downstream(n) == IF pipeline = "dynamo" THEN Get(adj, n) ELSE Get(connections, n)
Upstream(n) == IF pipeline = "dynamo" THEN Get(rev, n) ELSE Get(reverse_connections, n)

Enumerated == result.op \in {"analyze_flow", "main_paths"} /\ ~result.raised

IsSimplePath(p) ==
    /\ \A i, j \in 1..Len(p) : i # j => p[i] # p[j]
    /\ \A i \in 1..(Len(p) - 1) : p[i + 1] \in Range(Downstream(p[i]))

(***************************************************************************)
(* Properties                                                               *)
(***************************************************************************)
\* C1: every path an enumerator returns is a simple directed path of the
\* graph: its nodes are pairwise distinct and every two consecutive nodes are
\* joined by an entry of the forward adjacency.
C1_PathsAreSimple ==
    Enumerated => \A k \in 1..Len(result.paths) : IsSimplePath(result.paths[k])

\* a returned path of three or more nodes one of whose nodes has an edge
\* back to an earlier node of the path: the traversal met a cycle
C1_Witness ==
    /\ Enumerated
    /\ \E k \in 1..Len(result.paths) :
          LET p == result.paths[k]
          IN /\ Len(p) >= 3
             /\ \E i, j \in 1..Len(p) : i < j /\ p[i] \in Range(Downstream(p[j]))

\* C2: every traversal terminates, on graphs with cycles too.  No call of
\* _simple_paths makes more than visited_guard (10,000) loop iterations; every
\* traversal call that is running leads to its return, with the stack empty,
\* the path cap reached or the step budget spent (Dynamo), with the queue
\* empty or the path-count cap reached (Grasshopper); and the enumeration
\* that called it comes to its end, which on every graph with a node is a
\* return (on an empty component set _find_start_nodes ends the Grasshopper
\* enumeration by raising, before any traversal starts).
TraversalStopped ==
    IF pipeline = "dynamo"
    THEN \/ run.st.stack = <<>>
         \/ Len(run.st.results) >= cap_paths
         \/ run.st.steps >= visited_guard
    ELSE \/ run.st.queue = <<>>
         \/ Len(run.st.paths) >= max_paths

C2_TraversalsTerminate ==
    /\ [](pipeline = "dynamo" /\ run.pc # "idle" => run.st.steps <= visited_guard)
    /\ (run.pc = "traverse") ~> (run.pc = "loop" /\ TraversalStopped)
    /\ <>(run.pc = "done")
    /\ [](run.pc = "done" /\ GraphNodes # {} => ~result.raised)

\* the step budget has cut a traversal of a cyclic graph short, and
\* analyze_flow has returned
C2_Witness ==
    /\ pipeline = "dynamo"
    /\ run.pc = "done"
    /\ run.st.steps = visited_guard
    /\ run.st.stack # <<>>
    /\ \E n, m \in GraphNodes : m \in Range(Downstream(n)) /\ n \in Range(Downstream(m))

\* C3: two invocations of the path enumerator on the same graph return the
\* same ordered list of paths, whatever the order in which the start and end
\* sets are enumerated.
C3_Deterministic ==
    (Enumerated /\ prev.valid) => result.paths = prev.paths

\* C4: every returned path starts at a node of the start set the enumeration
\* used, ends at a node of the end set it used, and its first and last nodes
\* differ.
C4_PathEndpoints ==
    Enumerated =>
       \A k \in 1..Len(result.paths) :
          LET p == result.paths[k]
          IN /\ Len(p) >= 2
             /\ p[1] \in result.used_starts
             /\ p[Len(p)] \in result.used_ends
             /\ p[1] # p[Len(p)]

\* a returned path, in a run where a node is both a start and an end node
C4_Witness ==
    /\ Enumerated
    /\ result.paths # <<>>
    /\ result.used_starts \cap result.used_ends # {}

\* C8: the Dynamo start set is exactly the set of graph nodes without incoming
\* edge or flagged as input by the view, the end set exactly the set of graph
\* nodes without outgoing edge or flagged as output; neither holds an
\* identifier that is no node of the graph.
C8_PickedAreGraphNodes ==
    result.op = "analyze_flow" =>
       /\ result.starts = {n \in GraphNodes : Upstream(n) = <<>> \/ n \in view_inputs}
       /\ result.ends = {n \in GraphNodes : Downstream(n) = <<>> \/ n \in view_outputs}

\* C9: _find_start_nodes returns the components without incoming entry when
\* there are some, and otherwise those whose number of incoming entries is
\* the least over the graph; _find_end_nodes likewise on outgoing entries.
C9_MinimumDegreeFallback ==
    /\ (result.op = "find_start_nodes" /\ ~result.raised) =>
          IF \E n \in GraphNodes : Len(Upstream(n)) = 0
          THEN result.starts = {n \in GraphNodes : Len(Upstream(n)) = 0}
          ELSE result.starts =
                  {n \in GraphNodes : \A m \in GraphNodes : Len(Upstream(n)) <= Len(Upstream(m))}
    /\ (result.op = "find_end_nodes" /\ ~result.raised) =>
          IF \E n \in GraphNodes : Len(Downstream(n)) = 0
          THEN result.ends = {n \in GraphNodes : Len(Downstream(n)) = 0}
          ELSE result.ends =
                  {n \in GraphNodes : \A m \in GraphNodes : Len(Downstream(n)) <= Len(Downstream(m))}

\* the fallback is used and keeps some components out
C9_Witness ==
    /\ result.op = "find_start_nodes"
    /\ \A n \in GraphNodes : Len(Upstream(n)) > 0
    /\ result.starts # {}
    /\ result.starts # GraphNodes

\* C10: for a graph with at least one node the start set and the end set
\* are each non-empty, in both pipelines.
C10_StartEndNonEmpty ==
    /\ (result.op \in {"analyze_flow", "main_paths", "find_start_nodes"} /\ GraphNodes # {})
          => result.starts # {}
    /\ (result.op \in {"analyze_flow", "main_paths", "find_end_nodes"} /\ GraphNodes # {})
          => result.ends # {}


\* the weight of a path: one for each of its nodes, one more for each node
\* whose ConcreteType names python, codeblock or dsfunction
Weight(p) ==
    Len(p) + Cardinality({i \in 1..Len(p) :
                 NodeType(nodes, p[i]) \cap {"python", "codeblock", "dsfunction"} # {}})

Count(seq, x) == Cardinality({i \in 1..Len(seq) : seq[i] = x})

\* C5: no (start, end) pair gives more than 50 paths to the pool of the
\* Dynamo enumerator.
C5_PairCap ==
    result.op = "analyze_flow" =>
       \A p \in DOMAIN result.contrib : result.contrib[p] <= 50

\* a pair joined by more than 50 simple paths gave exactly 50 to the pool
C5_Witness ==
    /\ result.op = "analyze_flow"
    /\ <<1, 4>> \in DOMAIN result.contrib
    /\ result.contrib[<<1, 4>>] = 50
    /\ Len(Downstream(1)) - Count(Downstream(1), 2) > 0
    /\ (Len(Downstream(1)) - Count(Downstream(1), 2)) * Len(Downstream(3)) > 50

\* C6: analyze_flow returns at most 10 paths, all of the pool, in
\* non-increasing order of weight, and no path of the pool that it leaves out
\* weighs more than a path it returns.
C6_TopTenByWeight ==
    result.op = "analyze_flow" =>
       /\ Len(result.paths) <= 10
       /\ Len(result.paths) = Min2(10, Len(result.all_paths))
       /\ \A i, j \in 1..Len(result.paths) :
             i < j => Weight(result.paths[i]) >= Weight(result.paths[j])
       /\ \A x \in Range(result.paths) : Count(result.paths, x) <= Count(result.all_paths, x)
       /\ \A x \in Range(result.all_paths) :
             Count(result.paths, x) < Count(result.all_paths, x) =>
                \A y \in Range(result.paths) : Weight(x) <= Weight(y)

\* the pool holds more than 10 paths, of different weights, the lightest of
\* them discovered first
C6_Witness ==
    /\ result.op = "analyze_flow"
    /\ Len(result.all_paths) > 10
    /\ Len(result.paths) = 10
    /\ \E i, j \in 1..Len(result.all_paths) :
          i < j /\ j > 10 /\ Weight(result.all_paths[i]) < Weight(result.all_paths[j])

\* C7: among the returned paths of equal weight a longer one stands before a
\* shorter one, and of two of equal weight and equal length the one discovered
\* first stands first.
C7_TieBreak ==
    result.op = "analyze_flow" =>
       \A i, j \in 1..Len(result.paths) :
          (i < j /\ Weight(result.paths[i]) = Weight(result.paths[j])) =>
             /\ Len(result.paths[i]) >= Len(result.paths[j])
             /\ Len(result.paths[i]) = Len(result.paths[j]) =>
                   (\E a, b \in 1..Len(result.all_paths) :
                       /\ a <= b
                       /\ result.all_paths[a] = result.paths[i]
                       /\ result.all_paths[b] = result.paths[j])

(***************************************************************************)
(* Properties of the classification results                                 *)
(***************************************************************************)
\* the nodes reported as branch (merge) points by the last query
BranchReported == result.op \in {"analyze_flow", "branching_points"} /\ ~result.raised
MergeReported == result.op \in {"analyze_flow", "merge_points"} /\ ~result.raised
BranchNodes == IF pipeline = "dynamo" THEN Range(result.branching)
               ELSE DOMAIN result.branching
MergeNodes == IF pipeline = "dynamo" THEN Range(result.merges) ELSE DOMAIN result.merges
BranchTargets(n) == IF pipeline = "dynamo" THEN Get(adj, n) ELSE result.branching[n]
MergeSources(n) == IF pipeline = "dynamo" THEN Get(rev, n) ELSE result.merges[n]

\* every identifier that is a key of an adjacency map
MapKeys == IF pipeline = "dynamo" THEN (DOMAIN adj) \cup (DOMAIN rev)
           ELSE (DOMAIN connections) \cup (DOMAIN reverse_connections)

\* the number of entries of the forward adjacency lists
Entries == IF pipeline = "dynamo"
           THEN Cardinality({<<n, i>> \in (DOMAIN adj) \X (1..MaxSize) : i <= Len(adj[n])})
           ELSE Cardinality({<<n, i>> \in (DOMAIN connections) \X (1..MaxSize) :
                                i <= Len(connections[n])})

\* C11: a node is reported as a branch point exactly when it has more than
\* one distinct downstream target, and as a merge point exactly when it has
\* more than one distinct upstream source; parallel edges to or from a single
\* neighbour make no branch or merge point.
C11_DistinctNeighbours ==
    /\ BranchReported =>
          \A n \in GraphNodes \cup BranchNodes :
             n \in BranchNodes <=> Cardinality(Range(Downstream(n))) > 1
    /\ MergeReported =>
          \A n \in GraphNodes \cup MergeNodes :
             n \in MergeNodes <=> Cardinality(Range(Upstream(n))) > 1

\* C12: every key and every element of the forward and reverse adjacency
\* lists is a node of the graph, and so is every reported branch point, merge
\* point, branch target and merge source.
C12_NodeIdClosure ==
    /\ MapKeys \subseteq GraphNodes
    /\ \A n \in MapKeys : /\ Range(Downstream(n)) \subseteq GraphNodes
                          /\ Range(Upstream(n)) \subseteq GraphNodes
    /\ BranchReported =>
          /\ BranchNodes \subseteq GraphNodes
          /\ \A n \in BranchNodes : Range(BranchTargets(n)) \subseteq GraphNodes
    /\ MergeReported =>
          /\ MergeNodes \subseteq GraphNodes
          /\ \A n \in MergeNodes : Range(MergeSources(n)) \subseteq GraphNodes

\* a raw object was not accepted as a node, so that its identifier is foreign,
\* more connectivity records were read than the graph has edges, and a branch
\* point is reported
C12_Witness ==
    /\ seen > Cardinality(GraphNodes)
    /\ size > seen + Entries
    /\ BranchReported
    /\ BranchNodes # {}

\* C13: no node stands in its own forward or reverse adjacency list.
C13_NoSelfLoops ==
    \A n \in MapKeys : n \notin Range(Downstream(n)) /\ n \notin Range(Upstream(n))

\* the graph holds two nodes that feed each other, and a connectivity record
\* of the input made no edge
C13_Witness ==
    /\ \E n, m \in GraphNodes : m \in Range(Downstream(n)) /\ n \in Range(Downstream(m))
    /\ size > seen + Entries
    /\ IF pipeline = "dynamo" THEN view_inputs = {} /\ view_outputs = {}
       ELSE phase = "links"

\* C14: in the Grasshopper graph no forward adjacency list holds the same
\* target twice and no reverse adjacency list holds the same source twice.
C14_NoDuplicateEntries ==
    pipeline = "gh" =>
       \A n \in MapKeys :
          /\ \A x \in Range(Downstream(n)) : Count(Downstream(n), x) = 1
          /\ \A x \in Range(Upstream(n)) : Count(Upstream(n), x) = 1

\* C15: every parallel group has at least two members, its members have the
\* same upstream sources with the same multiplicities, none of them has an
\* empty upstream list, and no node stands in two groups or twice in a group.
C15_ParallelGroups ==
    result.op = "parallel_processing" =>
       /\ \A k \in DOMAIN result.groups :
             LET g == result.groups[k]
             IN /\ Len(g) >= 2
                /\ \A i, j \in DOMAIN g :
                      /\ i # j => g[i] # g[j]
                      /\ \A x \in Range(Upstream(g[i])) \cup Range(Upstream(g[j])) :
                            Count(Upstream(g[i]), x) = Count(Upstream(g[j]), x)
                /\ \A i \in DOMAIN g : Upstream(g[i]) # <<>>
       /\ \A k, l \in DOMAIN result.groups :
             k # l => Range(result.groups[k]) \cap Range(result.groups[l]) = {}

\* a group is reported while another node with upstream sources is in none
C15_Witness ==
    /\ result.op = "parallel_processing"
    /\ result.groups # <<>>
    /\ \E n \in GraphNodes :
          /\ Upstream(n) # <<>>
          /\ \A k \in DOMAIN result.groups : n \notin Range(result.groups[k])

\* C16: two nodes with the same non-empty set of distinct upstream sources
\* stand in the same parallel group.
C16_GroupedByDistinctSources ==
    result.op = "parallel_processing" =>
       \A n, m \in GraphNodes :
          (n # m /\ Range(Upstream(n)) # {} /\ Range(Upstream(n)) = Range(Upstream(m))) =>
             \E k \in DOMAIN result.groups : {n, m} \subseteq Range(result.groups[k])

\* the graph is the diamond 1->2, 1->3, 2->4, 3->4, its edges discovered in
\* that order, its nodes of one kind, no node flagged as input or output
IsDiamond ==
    /\ GraphNodes = {1, 2, 3, 4}
    /\ Downstream(1) = <<2, 3>> /\ Downstream(2) = <<4>>
    /\ Downstream(3) = <<4>> /\ Downstream(4) = <<>>
    /\ Upstream(1) = <<>> /\ Upstream(2) = <<1>>
    /\ Upstream(3) = <<1>> /\ Upstream(4) = <<2, 3>>
    /\ view_inputs = {} /\ view_outputs = {}
    /\ \A i \in DOMAIN nodes : nodes[i].ConcreteType = {}

\* what the queries report of the diamond, the ranked path list apart
DiamondClassified ==
    /\ result.op \in {"analyze_flow", "find_start_nodes", "main_paths"} => result.starts = {1}
    /\ result.op \in {"analyze_flow", "find_end_nodes", "main_paths"} => result.ends = {4}
    /\ BranchReported => BranchNodes = {1} /\ BranchTargets(1) = <<2, 3>>
    /\ MergeReported => MergeNodes = {4} /\ MergeSources(4) = <<2, 3>>
    /\ result.op = "parallel_processing" => result.groups = <<<<2, 3>>>>
    /\ ~result.raised

\* C17, as stated: on the diamond the start set is {1}, the end set {4}, the
\* branch points are 1 with targets [2,3], the merge points 4 with sources
\* [2,3], the parallel groups [[2,3]], and the ranked list is the two paths
\* 1-2-4 and 1-3-4, of equal rank, in that order.
C17_DiamondAsStated ==
    IsDiamond =>
       /\ DiamondClassified
       /\ Enumerated =>
             /\ result.paths = <<<<1, 2, 4>>, <<1, 3, 4>>>>
             /\ Weight(result.paths[1]) = Weight(result.paths[2])

\* C17, amended: as stated, except that the two paths stand in discovery
\* order, which is 1-2-4 before 1-3-4 for the breadth-first Grasshopper
\* enumeration and 1-3-4 before 1-2-4 for the depth-first Dynamo enumeration.
C17_Diamond ==
    IsDiamond =>
       /\ DiamondClassified
       /\ Enumerated =>
             /\ result.paths = IF pipeline = "dynamo"
                               THEN <<<<1, 3, 4>>, <<1, 2, 4>>>>
                               ELSE <<<<1, 2, 4>>, <<1, 3, 4>>>>
             /\ result.paths = result.all_paths
             /\ Weight(result.paths[1]) = Weight(result.paths[2])

\* analyze_flow has enumerated the paths of the diamond
C17_Witness ==
    /\ IsDiamond
    /\ pipeline = "dynamo"
    /\ Enumerated
    /\ Len(result.paths) = 2

\* the graph is the cycle 1->2->3->1, no node flagged as input or output
IsThreeCycle ==
    /\ GraphNodes = {1, 2, 3}
    /\ Downstream(1) = <<2>> /\ Downstream(2) = <<3>> /\ Downstream(3) = <<1>>
    /\ Upstream(1) = <<3>> /\ Upstream(2) = <<1>> /\ Upstream(3) = <<2>>
    /\ view_inputs = {} /\ view_outputs = {}

\* C18: on the 3-cycle the start set and the end set that the enumeration
\* uses are both the whole node set, and the enumerator returns at most one
\* path between any two distinct nodes.
C18_ThreeCycle ==
    IsThreeCycle =>
       /\ result.op = "find_start_nodes" => result.starts = {1, 2, 3}
       /\ result.op = "find_end_nodes" => result.ends = {1, 2, 3}
       /\ Enumerated =>
             /\ result.used_starts = {1, 2, 3}
             /\ result.used_ends = {1, 2, 3}
             /\ \A s, e \in GraphNodes :
                   s # e => Cardinality({i \in DOMAIN result.all_paths :
                                            /\ result.all_paths[i][1] = s
                                            /\ result.all_paths[i][Len(result.all_paths[i])] = e})
                               <= 1

\* the nodes that the forward adjacency lists lead to from node s
ReachableFrom(s) ==
    IF pipeline = "dynamo" THEN Reachable(adj, {s}) ELSE Reachable(connections, {s})

\* C19: on a graph with a node in which no start node reaches a distinct end
\* node, the path enumeration does not raise and returns the empty list.
C19_DegenerateTopology ==
    (/\ result.op \in {"analyze_flow", "main_paths"}
     /\ GraphNodes # {}
     /\ \A s \in result.starts, e \in result.ends : s # e => e \notin ReachableFrom(s)) =>
       ~result.raised /\ result.paths = <<>>

\* C20: on a graph without nodes no query raises (the Grasshopper queries
\* _find_start_nodes, _find_end_nodes and _identify_main_workflow_paths return
\* empty results), and no path is returned.
C20_EmptyGraph ==
    (GraphNodes = {} /\ result.op # "none") =>
       ~result.raised /\ result.paths = <<>>

(***************************************************************************)
(* Properties of the caps, the error handling and the frame                 *)
(***************************************************************************)
\* the last traversal call has returned to the enumeration that made it
TraversalReturned == run.pc = "loop" /\ run.cur # <<>>

\* it stopped on a cap, with entries left to explore
TraversalCut == IF pipeline = "dynamo" THEN run.st.stack # <<>> ELSE run.st.queue # <<>>

\* the value it handed to its caller: the list of paths, and nothing else
Handed == IF pipeline = "dynamo" THEN run.st.results ELSE run.st.paths

\* the adjacency map m without the entries that lie on none of the paths
Pruned(m, paths) ==
    [n \in DOMAIN m |->
        SelectSeq(m[n], LAMBDA t : \E k \in DOMAIN paths :
                                      \E i \in 1..(Len(paths[k]) - 1) :
                                         paths[k][i] = n /\ paths[k][i + 1] = t)]

\* the same call on the graph that holds the edges of the handed paths only:
\* [exhausted, handed]
Twin ==
    IF pipeline = "dynamo"
    THEN LET st == SpRun(Pruned(adj, Handed), run.cur[2], SpInit(run.cur[1]), visited_guard)
         IN [exhausted |-> st.stack = <<>>, handed |-> st.results]
    ELSE LET st == TrRun(run.ends, TrInit(Pruned(connections, Handed), run.cur[1]))
         IN [exhausted |-> st.queue = <<>>, handed |-> st.paths]

\* C21: when a traversal stops on a cap before it has exhausted the search
\* space, what it hands to its caller differs from what a traversal hands
\* that exhausts its search space and finds the same paths.
C21_CapObservable ==
    (TraversalReturned /\ TraversalCut) => ~(Twin.exhausted /\ Twin.handed = Handed)

\* the nodes that own port p (none for 0, the missing port, and for a port
\* of a record that is no node)
PortOwners(p) == {k \in GraphNodes : p # 0 /\ p \in {InPort(k), OutPort(k)}}

\* the map m with v appended to the list of key k, every other list as it was
WithEntry(m, k, v) ==
    [n \in (DOMAIN m) \cup {k} |-> IF n = k THEN Append(Get(m, k), v) ELSE m[n]]

\* C22: a Dynamo connector whose Start or End is missing or is no port of a
\* known node adds no adjacency entry (and nothing is raised: the step is an
\* ordinary step of the loop); a connector that resolves at both ends to two
\* distinct nodes appends exactly one entry to the forward list of its source
\* and one to the reverse list of its target, after the entries already there.
C22_UnresolvableDropped ==
    [][(pipeline = "dynamo" /\ seen' = seen /\ size' = size + 1) =>
          \A s, e \in PortIds \cup {0} :
             DynAddConnector(s, e) =>
                /\ (PortOwners(s) = {} \/ PortOwners(e) = {}) => (adj' = adj /\ rev' = rev)
                /\ \A sn \in PortOwners(s), en \in PortOwners(e) :
                      sn # en => /\ adj' = WithEntry(adj, sn, en)
                                 /\ rev' = WithEntry(rev, en, sn)]_vars

\* a record without Id left its ports unowned, connectors made two entries
\* in one forward list, and a further record of the file made none
C22_Witness ==
    /\ pipeline = "dynamo"
    /\ seen > Cardinality(GraphNodes)
    /\ \E n \in GraphNodes : Len(Downstream(n)) >= 2
    /\ size > seen + Entries
    /\ view_inputs = {} /\ view_outputs = {}

\* every node that the last query named
ResultNodes ==
    result.starts \cup result.ends
       \cup UNION {Range(result.paths[k]) : k \in DOMAIN result.paths}
       \cup UNION {Range(result.groups[k]) : k \in DOMAIN result.groups}
       \cup (IF pipeline = "dynamo" THEN Range(result.branching) \cup Range(result.merges)
             ELSE (DOMAIN result.branching) \cup (DOMAIN result.merges)
                     \cup UNION {Range(result.branching[n]) : n \in DOMAIN result.branching}
                     \cup UNION {Range(result.merges[n]) : n \in DOMAIN result.merges})

\* C23: the step that reads the Object chunk of a Panel with SourceCount > 0
\* leaves the component set as it is, the step that reads any other chunk (a
\* Panel with SourceCount = 0, a component that is no Panel) appends its
\* component; no later step brings a component into the set, so that a
\* connected Panel is never a member; and the adjacency maps and the query
\* results name members of the component set only.
C23_AnnotationFilter ==
    [][pipeline = "gh" =>
          /\ \A tn \in {"Panel", "Other"}, sc \in {0, 1} :
                GhAddObject(tn, sc) =>
                   components' = IF tn = "Panel" /\ sc > 0 THEN components
                                 ELSE Append(components, [guid |-> seen + 1])
          /\ seen' = seen => components' = components
          /\ (MapKeys \cup ResultNodes)' \subseteq GraphNodes'
          /\ \A n \in GraphNodes' : (Range(Downstream(n)) \cup Range(Upstream(n)))' \subseteq GraphNodes']_vars

\* C24: a step of a Grasshopper query (the queries are the steps that leave
\* the analysis in phase "built") leaves the component set and the forward and
\* reverse adjacency maps, key sets and lists, as they were.
C24_QueriesLeaveGraph ==
    [][(pipeline = "gh" /\ phase' = "built") =>
          /\ components' = components
          /\ DOMAIN connections' = DOMAIN connections
          /\ DOMAIN reverse_connections' = DOMAIN reverse_connections
          /\ connections' = connections
          /\ reverse_connections' = reverse_connections]_vars

\* C25: build_indexes leaves the raw node records of its input as it read
\* them: a record once read has the same keys and values after every later
\* step of the analysis.
C25_InputUnchanged ==
    [][pipeline = "dynamo" =>
          \A i \in DOMAIN nodes : i \in DOMAIN nodes' /\ nodes'[i] = nodes[i]]_vars

\* C26: in the Grasshopper enumeration no start node gives more than 3 paths
\* to the pool; every pooled path has at least 2 and at most 10 nodes and is
\* no cut-off prefix (it stops at an end node or at a node without outgoing
\* entry: a candidate of more than 10 nodes is dropped); and
\* _identify_main_workflow_paths returns at most 10 paths.
C26_GhEnumerationBounds ==
    (result.op = "main_paths" /\ ~result.raised) =>
       /\ \A p \in DOMAIN result.contrib : result.contrib[p] <= 3
       /\ \A k \in DOMAIN result.all_paths :
             LET path == result.all_paths[k]
             IN /\ Len(path) >= 2
                /\ Len(path) <= 10
                /\ path[Len(path)] \in result.ends \/ Downstream(path[Len(path)]) = <<>>
       /\ Len(result.paths) <= 10
       /\ Len(result.paths) = Min2(10, Len(result.all_paths))

\* four start nodes with four targets each gave three paths each to the pool,
\* and ten of the twelve were returned
C26_Witness ==
    /\ result.op = "main_paths"
    /\ Cardinality(result.starts) = 4
    /\ \A s \in result.starts : Len(Downstream(s)) = 4 /\ result.contrib[<<s, 0>>] = 3
    /\ Len(result.all_paths) = 12
    /\ Len(result.paths) = 10

\* the position of component g in the components dict, of the first x in seq
GuidIndex(g) == CHOOSE i \in DOMAIN components : components[i].guid = g
FirstIndex(seq, x) == CHOOSE i \in DOMAIN seq : seq[i] = x /\ \A j \in 1..(i - 1) : seq[j] # x

\* the first position at which the paths p and q of equal length differ
FirstDifference(p, q) == CHOOSE d \in DOMAIN p : p[d] # q[d] /\ \A j \in 1..(d - 1) : p[j] = q[j]

\* the path at position a of the pool was discovered before the one at b:
\* its start node stands earlier in the components dict, or both have the
\* same start node and it is the shorter one, or the two have the same start
\* node and length and it takes the earlier branch where they part
DiscoveryOrder(pa, pb) ==
    /\ GuidIndex(pa[1]) <= GuidIndex(pb[1])
    /\ pa[1] = pb[1] =>
          /\ Len(pa) <= Len(pb)
          /\ pa # pb
          /\ Len(pa) = Len(pb) =>
                LET d == FirstDifference(pa, pb)
                IN FirstIndex(Downstream(pa[d - 1]), pa[d]) < FirstIndex(Downstream(pa[d - 1]), pb[d])

\* C27: the list _identify_main_workflow_paths returns is in non-increasing
\* order of length, its paths of equal length stand in the order in which they
\* were discovered, and the pool lists the paths in discovery order: by start
\* node in component order, and from one start node by non-decreasing length,
\* in breadth-first order.
C27_GhRanking ==
    (result.op = "main_paths" /\ ~result.raised) =>
       /\ \A i, j \in DOMAIN result.paths :
             i < j =>
                /\ Len(result.paths[i]) >= Len(result.paths[j])
                /\ Len(result.paths[i]) = Len(result.paths[j]) =>
                      \E a, b \in DOMAIN result.all_paths :
                         /\ a < b
                         /\ result.all_paths[a] = result.paths[i]
                         /\ result.all_paths[b] = result.paths[j]
       /\ \A a, b \in DOMAIN result.all_paths :
             a < b => DiscoveryOrder(result.all_paths[a], result.all_paths[b])

\* a start node gave a shorter path to the pool before a longer one, and the
\* returned list puts the longer one first
C27_Witness ==
    /\ result.op = "main_paths"
    /\ Len(result.all_paths) >= 2
    /\ result.all_paths[1][1] = result.all_paths[2][1]
    /\ Len(result.all_paths[1]) < Len(result.all_paths[2])
    /\ result.paths[1] = result.all_paths[2]

\* C28: in every state of the construction and after it, in either pipeline,
\* the forward adjacency list of s holds t as many times as the reverse
\* adjacency list of t holds s, for every two identifiers s and t.
C28_ForwardReverseConsistent ==
    \A s, t \in Ids \cup GraphNodes \cup MapKeys :
       Count(Downstream(s), t) = Count(Upstream(t), s)

\* a Grasshopper graph after the document scan: one pair of components is
\* joined by two entries, another by one
C28_Witness ==
    /\ pipeline = "gh"
    /\ phase = "scan"
    /\ \E s, t \in GraphNodes : Count(Downstream(s), t) = 2
    /\ \E s, t \in GraphNodes : Count(Downstream(s), t) = 1

\* the simple directed paths that start at s, by number of nodes: those of
\* k + 1 nodes prolong those of k nodes by an edge to a node not yet on them
RECURSIVE PathsOfLength(_, _)
PathsOfLength(s, k) ==
    IF k = 1 THEN {<<s>>}
    ELSE {Append(p, t) : <<p, t>> \in
             {<<p, t>> \in PathsOfLength(s, k - 1) \X GraphNodes :
                 t \in Range(Downstream(p[Len(p)])) /\ t \notin Range(p)}}

\* all simple directed paths from s to e
SimplePathsBetween(s, e) ==
    {p \in UNION {PathsOfLength(s, k) : k \in 1..Cardinality(GraphNodes)} : p[Len(p)] = e}

NoParallelEdges ==
    \A n \in GraphNodes : \A t \in Range(Downstream(n)) : Count(Downstream(n), t) = 1

\* the paths that the call _simple_paths(adj, s, e) gave to the pool
PooledBetween(s, e) ==
    SelectSeq(result.all_paths, LAMBDA p : p[1] = s /\ p[Len(p)] = e)

\* C29: on a graph without parallel edges, every call _simple_paths(adj, s, e)
\* with s # e that stays below the caps (fewer than 50 simple paths lead from
\* s to e; graphs of this size need fewer than 10,000 iterations and hold no
\* path of 200 nodes) returns every simple directed path from s to e, each
\* exactly once, and nothing else.
C29_CompleteBelowCaps ==
    (result.op = "analyze_flow" /\ NoParallelEdges) =>
       \A pair \in DOMAIN result.contrib :
          LET s == pair[1]
              e == pair[2]
              found == PooledBetween(s, e)
              expected == SimplePathsBetween(s, e)
          IN (s # e /\ Cardinality(expected) < 50) =>
                /\ Range(found) = expected
                /\ Len(found) = Cardinality(expected)
                /\ Len(found) = result.contrib[pair]

\* a call returned two paths of different lengths on a graph without
\* parallel edge
C29_Witness ==
    /\ result.op = "analyze_flow"
    /\ NoParallelEdges
    /\ \E pair \in DOMAIN result.contrib :
          /\ result.contrib[pair] = 2
          /\ Len(PooledBetween(pair[1], pair[2])[1]) # Len(PooledBetween(pair[1], pair[2])[2])

\* C30: the ranked path list an enumerator returns holds no node sequence
\* twice, on graphs with parallel edges between one pair of nodes too.
C30_NoDuplicatePaths ==
    Enumerated =>
       \A i, j \in DOMAIN result.paths : i # j => result.paths[i] # result.paths[j]

=============================================================================
